---- MODULE Spec2Model ----
(***************************************************************************)
(* TeamBot: the retrieval context assembler                                *)
(* (AzureAISearchDataSource.processSearchResults) and the Jira agent flow  *)
(* (handleMessage -> handleApiQuery -> processApiQuery).                   *)
(*                                                                         *)
(* JavaScript strings are sequences of one-character strings, so that      *)
(* String.slice, template literals and the tokenizer work on characters.   *)
(* A value that may be absent (a missing document field, a result that     *)
(* has not been returned yet) is a record without that field, or a set     *)
(* holding zero or one value.                                              *)
(***************************************************************************)
EXTENDS Integers, Sequences, FiniteSets

\* ------------------------------------------------------------------ bounds
\* Longest candidate list handed to processSearchResults.
MaxCands == 3
\* Largest token budget (maxTokens) tried; budgets are 0..MaxTokens.
MaxTokens == 13
\* Characters per token of the fixed-width tokenizer.
CharsPerToken == 4

\* ------------------------------------------------------------ string tools
Min(a, b) == IF a < b THEN a ELSE b

Max(a, b) == IF a > b THEN a ELSE b

\* String.prototype.slice(0, end) for end >= 0.
Slice(s, end) == SubSeq(s, 1, Min(end, Len(s)))

Digits == <<"0", "1", "2", "3", "4", "5", "6", "7", "8", "9">>

\* Number -> decimal string, as a template literal `${n}` renders it.
RECURSIVE ToString(_)
ToString(n) == IF n < 10 THEN <<Digits[n + 1]>> ELSE ToString(n \div 10) \o <<Digits[(n % 10) + 1]>>

Whitespace == {" ", "\n"}

\* A tokenizer splitting on white space: a token is a maximal run of
\* characters that are not white space.
RECURSIVE WordTokens(_, _, _)
WordTokens(s, i, cur) ==
    LET flush == IF cur = <<>> THEN <<>> ELSE <<cur>>
    IN  IF i > Len(s) THEN flush
        ELSE IF s[i] \in Whitespace THEN flush \o WordTokens(s, i + 1, <<>>)
        ELSE WordTokens(s, i + 1, Append(cur, s[i]))

\* A tokenizer cutting the text into pieces of CharsPerToken characters.
RECURSIVE FixedTokens(_)
FixedTokens(s) ==
    IF Len(s) = 0 THEN <<>>
    ELSE <<SubSeq(s, 1, Min(CharsPerToken, Len(s)))>> \o FixedTokens(SubSeq(s, CharsPerToken + 1, Len(s)))

Tokenizers == {"words", "fixed"}

\* tokenizer.encode(text): the token sequence of text.
Encode(tok, s) == IF tok = "words" THEN WordTokens(s, 1, <<>>) ELSE FixedTokens(s)

\* ------------------------------------------------------------- candidates
OpenTag == <<"<", "c", "o", "n", "t", "e", "x", "t", ">">>

CloseTag == <<"<", "/", "c", "o", "n", "t", "e", "x", "t", ">">>

formatDocument(result) == OpenTag \o result \o CloseTag

\* The documents of the search index.
IndexDocuments ==
    { [description |-> <<"a">>, filename |-> <<>>, fileUrl |-> <<"u">>, totalChunks |-> 1],
      [description |-> <<"b", " ", "c">>, filename |-> <<"f">>, fileUrl |-> <<>>, totalChunks |-> 2],
      [description |-> <<"d", " ", "e", " ", "f", "g">>, filename |-> <<"g">>, fileUrl |-> <<"v">>, totalChunks |-> 0] }

\* The fields performHybridSearch asks the index for; totalChunks is not
\* among them (chunkindex is never read by the assembler).
selectedFields == {"description", "chunkindex", "filename", "fileUrl"}

SelectFields(doc) == [f \in (DOMAIN doc) \cap selectedFields |-> doc[f]]

\* The documents processSearchResults may be handed: as the hybrid search
\* returns them (selected fields only), or complete.
Candidates == IndexDocuments \cup {SelectFields(d) : d \in IndexDocuments}

\* result.document.<field> of a string field; undefined and "" are both falsy.
StringField(doc, f) == IF f \in DOMAIN doc THEN doc[f] ELSE <<>>

\* result.document.totalChunks || 0
TotalChunksOrZero(doc) == IF "totalChunks" \in DOMAIN doc THEN doc.totalChunks ELSE 0

RECURSIVE SeqsOfLen(_, _)
SeqsOfLen(S, n) == IF n = 0 THEN {<<>>} ELSE {Append(s, x) : s \in SeqsOfLen(S, n - 1), x \in S}

SeqsUpTo(S, n) == UNION {SeqsOfLen(S, k) : k \in 0..n}

\* searchResults as processSearchResults receives it: absent (null, or
\* without a results array), or holding the results array.
SearchResultsInputs ==
    {[present |-> FALSE, results |-> <<>>]} \cup {[present |-> TRUE, results |-> s] : s \in SeqsUpTo(Candidates, MaxCands)}

VARIABLES
    searchResults, tokenizer, maxTokens,      \* arguments of processSearchResults
    pc,                                       \* position in processSearchResults
    usedTokens, allContent, filename, fileUrl,
    chunkCount, totalChunks, processedCount, truncated,
    encodeCalls,                              \* number of tokenizer.encode calls made
    returned,                                 \* {} or {the bundle returned}
    configBaseUrl,                            \* config.jiraBaseUrl
    agentPc,                                  \* the call the Jira query is awaiting
    messages,                                 \* the transcript of processApiQuery
    assistantResponse,                        \* {} or {the first model response}
    functionArgs,                             \* {} or {the parsed tool arguments}
    modelRequests,                            \* the chat-completion calls issued
    vaultCalls,                               \* number of key vault lookups issued
    httpRequests,                             \* the requests handed to the HTTP transport
    functionResult,                           \* {} or {the tool result}
    dynamicResponse,                          \* {} or {the second model response}
    sent,                                     \* the messages sent to the user
    modelErrors,                              \* number of model calls that threw
    cancelledAt,                              \* {} or {the calls issued when the caller gave up}
    firstReturned,                            \* {} or {the result of an earlier call with the same arguments}
    renderPc,                                 \* position in renderData
    query,                                    \* memory.getValue("temp.input")
    renderResult,                             \* {} or {the bundle renderData returned}
    thrown,                                   \* {} or {the error renderData threw}
    errorLog,                                 \* the operation types handed to logger.logError
    renderCalls,                              \* the stages renderData has invoked
    userProperties,                           \* logger.userProperties
    logPc,                                    \* position of each in-flight message
    events,                                   \* the events handed to client.trackEvent
    useAppConfig,                             \* configProvider.useAppConfig && configProvider.configClient
    cachedConfig,                             \* {} (null) or {configProvider.cachedConfig}
    getConfigCalls,                           \* each getConfig call: position, what it read, what it returned
    clears                                    \* number of clearCache calls made

asmVars == <<searchResults, tokenizer, maxTokens, pc, usedTokens, allContent, filename, fileUrl,
             chunkCount, totalChunks, processedCount, truncated, encodeCalls, returned>>

agentVars == <<configBaseUrl, agentPc, messages, assistantResponse, functionArgs, modelRequests,
               vaultCalls, httpRequests, functionResult, dynamicResponse, sent, modelErrors>>

renderVars == <<renderPc, query, renderResult, thrown, errorLog, renderCalls>>

loggerVars == <<userProperties, logPc, events>>

\* The state outside processSearchResults and processApiQuery.
configVars == <<useAppConfig, cachedConfig, getConfigCalls, clears>>

extVars == <<cancelledAt, firstReturned, renderVars, loggerVars, configVars>>

vars == <<asmVars, agentVars, extVars>>

asmLocals == <<usedTokens, allContent, filename, fileUrl, chunkCount, totalChunks, processedCount, truncated>>

asmInputs == <<searchResults, tokenizer, maxTokens>>

\* -------------------------------------------------- processSearchResults
\* Variant: only an absent searchResults exits early.
NoResultsAbsentOnly(sr) == ~sr.present

\* !searchResults?.results?.length
NoResults(sr) == ~sr.present \/ Len(sr.results) = 0

\* Variant: a candidate that exactly fills the budget is rejected.
ExceedsBudgetStrict(used, tokens, max) == used + tokens >= max

\* usedTokens + tokens > maxTokens
ExceedsBudget(used, tokens, max) == used + tokens > max

\* Variant: every non-empty value overwrites the one captured before.
LastValid(current, value) == IF value # <<>> THEN value ELSE current

\* if (!current && value) current = value
FirstValid(current, value) == IF current = <<>> /\ value # <<>> THEN value ELSE current

\* The candidate the loop is about to process.
NextResult == searchResults.results[processedCount + 1]

\* The template literal of the output string.
OutputString(n, total, content, max, fname, furl) ==
    <<"P", "r", "o", "c", "e", "s", "s", "e", "d", " ">> \o ToString(n)
    \o <<" ", "o", "u", "t", " ", "o", "f", " ">> \o ToString(total)
    \o <<" ", "t", "o", "t", "a", "l", " ", "c", "h", "u", "n", "k", "s", ".", "\n">>
    \o <<"S", "u", "m", "m", "a", "r", "y", ":", " ">> \o Slice(content, max)
    \o <<"\n", "F", "i", "l", "e", "n", "a", "m", "e", ":", " ">> \o fname
    \o <<"\n", "F", "i", "l", "e", " ", "U", "R", "L", ":", " ">> \o furl

\* The locals and the result before processSearchResults has run.
AssemblerStart ==
    /\ pc = "start"
    /\ usedTokens = 0
    /\ allContent = <<>>
    /\ filename = <<>>
    /\ fileUrl = <<>>
    /\ chunkCount = 0
    /\ totalChunks = 0
    /\ processedCount = 0
    /\ truncated = FALSE
    /\ encodeCalls = 0
    /\ returned = {}

\* No Jira query has been received.
AgentStart ==
    /\ agentPc = "start"
    /\ messages = <<>>
    /\ assistantResponse = {}
    /\ functionArgs = {}
    /\ modelRequests = <<>>
    /\ vaultCalls = 0
    /\ httpRequests = <<>>
    /\ functionResult = {}
    /\ dynamicResponse = {}
    /\ sent = <<>>
    /\ modelErrors = 0

\* No caller has given up and no call has been repeated.
CallerStart ==
    /\ cancelledAt = {}
    /\ firstReturned = {}

\* renderData has not been called.
RenderIdle ==
    /\ renderPc = "idle"
    /\ query = ""
    /\ renderResult = {}
    /\ thrown = {}
    /\ errorLog = <<>>
    /\ renderCalls = <<>>

\* The messages in flight at the same time, and the user each came from.
Turns == {1, 2}

UserOf == <<"alice", "bob">>

\* new LoggingUtil(client): this.userProperties = {}
NoUserProperties == <<>>

\* The logger as constructed; no message has arrived.
LoggerIdle ==
    /\ userProperties = NoUserProperties
    /\ logPc = [t \in Turns |-> "idle"]
    /\ events = <<>>

\* Bound on the number of getConfig calls and of clearCache calls.
MaxConfigCalls == 3

ConfigCalls == 1..MaxConfigCalls

\* A getConfig call that has not been made.
NotCalled == [pc |-> "idle", saw |-> {}, contacted |-> FALSE, result |-> {}]

\* new ConfigProvider(): this.cachedConfig = null
ConfigIdle ==
    /\ cachedConfig = {}
    /\ getConfigCalls = [c \in ConfigCalls |-> NotCalled]
    /\ clears = 0

ExtStart == CallerStart /\ RenderIdle /\ LoggerIdle /\ ConfigIdle /\ useAppConfig = FALSE

InitAssembler ==
    /\ searchResults \in SearchResultsInputs
    /\ tokenizer \in Tokenizers
    /\ maxTokens \in 0..MaxTokens
    /\ AssemblerStart
    /\ configBaseUrl = "https://jira.example"
    /\ AgentStart
    /\ ExtStart

\* Early exit if no results.
EarlyExit ==
    /\ pc = "start"
    /\ NoResults(searchResults)
    /\ returned' = {[output |-> <<>>, length |-> 0, tooLong |-> FALSE]}
    /\ pc' = "done"
    /\ UNCHANGED <<asmInputs, asmLocals, encodeCalls, agentVars, extVars>>

\* Variant: what the loop accumulated outlives the call (fields, not locals).
EnterLoopStale ==
    /\ pc = "start"
    /\ ~NoResults(searchResults)
    /\ processedCount' = 0
    /\ truncated' = FALSE
    /\ pc' = "loop"
    /\ UNCHANGED <<asmInputs, usedTokens, allContent, filename, fileUrl, chunkCount, totalChunks, encodeCalls,
                   returned, agentVars, extVars>>

\* The declarations of the locals before the loop.
EnterLoop ==
    /\ pc = "start"
    /\ ~NoResults(searchResults)
    /\ usedTokens' = 0
    /\ allContent' = <<>>
    /\ filename' = <<>>
    /\ fileUrl' = <<>>
    /\ chunkCount' = 0
    /\ totalChunks' = 0
    /\ processedCount' = 0
    /\ truncated' = FALSE
    /\ pc' = "loop"
    /\ UNCHANGED <<asmInputs, encodeCalls, returned, agentVars, extVars>>

\* One iteration whose candidate fits the budget.
LoopAccept ==
    /\ pc = "loop"
    /\ processedCount < Len(searchResults.results)
    /\ LET doc == NextResult
           formattedResult == formatDocument(StringField(doc, "description"))
           tokens == Len(Encode(tokenizer, formattedResult))
       IN  /\ ~ExceedsBudget(usedTokens, tokens, maxTokens)
           /\ processedCount' = processedCount + 1
           /\ encodeCalls' = encodeCalls + 1
           /\ allContent' = allContent \o formattedResult \o <<" ">>
           /\ usedTokens' = usedTokens + tokens
           /\ chunkCount' = chunkCount + 1
           /\ totalChunks' = Max(totalChunks, TotalChunksOrZero(doc))
           /\ filename' = FirstValid(filename, StringField(doc, "filename"))
           /\ fileUrl' = FirstValid(fileUrl, StringField(doc, "fileUrl"))
    /\ UNCHANGED <<asmInputs, pc, truncated, returned, agentVars, extVars>>

\* Variant: the loop breaks without recording the truncation.
LoopRejectSilent ==
    /\ pc = "loop"
    /\ processedCount < Len(searchResults.results)
    /\ ExceedsBudget(usedTokens, Len(Encode(tokenizer, formatDocument(StringField(NextResult, "description")))), maxTokens)
    /\ processedCount' = processedCount + 1
    /\ encodeCalls' = encodeCalls + 1
    /\ pc' = "format"
    /\ UNCHANGED <<asmInputs, usedTokens, allContent, filename, fileUrl, chunkCount, totalChunks, truncated,
                   returned, agentVars, extVars>>

\* Variant: the loop skips the candidate and goes on (continue for break).
LoopRejectContinue ==
    /\ pc = "loop"
    /\ processedCount < Len(searchResults.results)
    /\ ExceedsBudget(usedTokens, Len(Encode(tokenizer, formatDocument(StringField(NextResult, "description")))), maxTokens)
    /\ processedCount' = processedCount + 1
    /\ encodeCalls' = encodeCalls + 1
    /\ truncated' = TRUE
    /\ UNCHANGED <<asmInputs, pc, usedTokens, allContent, filename, fileUrl, chunkCount, totalChunks,
                   returned, agentVars, extVars>>

\* Variant: the rejected candidate still counts towards totalChunks.
LoopRejectCounted ==
    /\ pc = "loop"
    /\ processedCount < Len(searchResults.results)
    /\ ExceedsBudget(usedTokens, Len(Encode(tokenizer, formatDocument(StringField(NextResult, "description")))), maxTokens)
    /\ processedCount' = processedCount + 1
    /\ encodeCalls' = encodeCalls + 1
    /\ truncated' = TRUE
    /\ totalChunks' = Max(totalChunks, TotalChunksOrZero(NextResult))
    /\ pc' = "format"
    /\ UNCHANGED <<asmInputs, usedTokens, allContent, filename, fileUrl, chunkCount, returned,
                   agentVars, extVars>>

\* One iteration whose candidate would exceed the budget: truncated, break.
LoopReject ==
    /\ pc = "loop"
    /\ processedCount < Len(searchResults.results)
    /\ LET doc == NextResult
           formattedResult == formatDocument(StringField(doc, "description"))
           tokens == Len(Encode(tokenizer, formattedResult))
       IN  ExceedsBudget(usedTokens, tokens, maxTokens)
    /\ processedCount' = processedCount + 1
    /\ encodeCalls' = encodeCalls + 1
    /\ truncated' = TRUE
    /\ pc' = "format"
    /\ UNCHANGED <<asmInputs, usedTokens, allContent, filename, fileUrl, chunkCount, totalChunks, returned,
                   agentVars, extVars>>

\* Variant: the bundle reports the running sum of the per-chunk counts.
BuildOutputRunningSum ==
    /\ \/ pc = "format"
       \/ pc = "loop" /\ processedCount = Len(searchResults.results)
    /\ LET outputString == OutputString(chunkCount, totalChunks, allContent, maxTokens, filename, fileUrl)
       IN  returned' = {[output |-> outputString,
                         length |-> usedTokens,
                         tooLong |-> usedTokens > maxTokens,
                         metadata |-> [filename |-> filename, fileUrl |-> fileUrl,
                                       chunkCount |-> chunkCount, totalChunks |-> totalChunks,
                                       truncated |-> truncated]]}
    /\ encodeCalls' = encodeCalls + 1
    /\ pc' = "done"
    /\ UNCHANGED <<asmInputs, asmLocals, agentVars, extVars>>

\* After the loop: the output string, its token count, the bundle.
BuildOutput ==
    /\ \/ pc = "format"
       \/ pc = "loop" /\ processedCount = Len(searchResults.results)
    /\ LET outputString == OutputString(chunkCount, totalChunks, allContent, maxTokens, filename, fileUrl)
           outputTokens == Len(Encode(tokenizer, outputString))
       IN  returned' = {[output |-> outputString,
                         length |-> outputTokens,
                         tooLong |-> outputTokens > maxTokens,
                         metadata |-> [filename |-> filename, fileUrl |-> fileUrl,
                                       chunkCount |-> chunkCount, totalChunks |-> totalChunks,
                                       truncated |-> truncated]]}
    /\ encodeCalls' = encodeCalls + 1
    /\ pc' = "done"
    /\ UNCHANGED <<asmInputs, asmLocals, agentVars, extVars>>

NextAssembler == EarlyExit \/ EnterLoop \/ LoopAccept \/ LoopReject \/ BuildOutput

SpecAssembler == InitAssembler /\ [][NextAssembler]_vars

\* ------------------------------------------- properties of the assembler
Results == searchResults.results

\* The wrapped text of candidate i and its token count.
Formatted(i) == formatDocument(StringField(Results[i], "description"))

TokensOf(i) == Len(Encode(tokenizer, Formatted(i)))

\* The token sum of the first k wrapped candidates.
RECURSIVE PrefixTokens(_)
PrefixTokens(k) == IF k = 0 THEN 0 ELSE PrefixTokens(k - 1) + TokensOf(k)

\* The first k wrapped candidates, in input order, each followed by a space.
RECURSIVE PrefixContent(_)
PrefixContent(k) == IF k = 0 THEN <<>> ELSE PrefixContent(k - 1) \o Formatted(k) \o <<" ">>

\* text occurs in s as a contiguous run of characters.
Occurs(text, s) == \E o \in 0..(Len(s) - Len(text)) : SubSeq(s, o + 1, o + Len(text)) = text

\* The bundles returned by the path that went through the loop.
Assembled == {b \in returned : "metadata" \in DOMAIN b}

\* The first non-empty value of field f among the first k candidates, or "".
FirstNonEmpty(f, k) ==
    LET having == {i \in 1..k : StringField(Results[i], f) # <<>>}
    IN  IF having = {} THEN <<>>
        ELSE StringField(Results[CHOOSE i \in having : \A j \in having : i <= j], f)

EmptyBundle == [output |-> <<>>, length |-> 0, tooLong |-> FALSE]

\* C1: the token count reported in the bundle (length) never exceeds
\* maxTokens, for every candidate sequence and every budget.
C1_LengthWithinBudget == \A b \in returned : b.length <= maxTokens

\* C2: every chunk counted in chunkCount appears in the output text in
\* full, also after the content was cut to maxTokens characters.
C2_OnlyWholeChunks ==
    \A b \in Assembled : \A i \in 1..b.metadata.chunkCount : Occurs(Formatted(i), b.output)

\* C3: in every bundle chunkCount is at most totalChunks, also when
\* candidates lack the totalChunks field or carry 0.
C3_UsedWithinAvailable == \A b \in Assembled : b.metadata.chunkCount <= b.metadata.totalChunks

\* C4: a bundle with truncated = false counted every candidate, and
\* truncated = true exactly when fewer chunks were counted than there are
\* candidates; the bundle of the early exit stands for no candidate.
C4_TruncatedIffNotAll ==
    /\ \A b \in Assembled :
        /\ ~b.metadata.truncated => b.metadata.chunkCount = Len(Results)
        /\ b.metadata.truncated <=> b.metadata.chunkCount < Len(Results)
    /\ \A b \in returned \ Assembled : Len(Results) = 0

C4_Witness ==
    /\ \E b \in Assembled : ~b.metadata.truncated /\ b.metadata.chunkCount >= 2
    /\ Len(Results) >= 2

\* C5: candidate i is counted iff the token sum of wrapped candidates
\* 1..i is at most maxTokens; a sum equal to maxTokens is accepted.
C5_IncludedIffPrefixFits ==
    \A b \in Assembled : \A i \in 1..Len(Results) : (i <= b.metadata.chunkCount) <=> (PrefixTokens(i) <= maxTokens)

C5_Witness ==
    /\ \E b \in Assembled : b.metadata.chunkCount = 1 /\ b.metadata.truncated
    /\ Len(Results) >= 2
    /\ TokensOf(1) = maxTokens

\* C6: with an empty or absent candidate list processSearchResults returns
\* the empty bundle and never calls the tokenizer.
C6_EmptyInputEmptyBundle ==
    (pc # "start" /\ (~searchResults.present \/ Len(Results) = 0)) =>
        (pc = "done" /\ returned = {EmptyBundle} /\ encodeCalls = 0)

C6_Witness == pc = "done" /\ searchResults.present /\ Len(Results) = 0 /\ returned = {EmptyBundle}

\* C7: the chunks taken are always a prefix of the input, in input order:
\* the accumulated content is the first chunkCount wrapped candidates, and
\* the output text is built from exactly that.
C7_IncludedIsPrefix ==
    /\ chunkCount <= Len(Results)
    /\ allContent = PrefixContent(chunkCount)
    /\ \A b \in Assembled :
        b.output = OutputString(b.metadata.chunkCount, b.metadata.totalChunks,
                                PrefixContent(b.metadata.chunkCount), maxTokens,
                                b.metadata.filename, b.metadata.fileUrl)

\* A later candidate would have fitted after an earlier one was rejected.
C7_Witness ==
    /\ \E b \in Assembled : b.metadata.chunkCount = 1 /\ b.metadata.truncated
    /\ Len(Results) = 3
    /\ TokensOf(1) + TokensOf(2) > maxTokens
    /\ TokensOf(1) + TokensOf(3) <= maxTokens

\* C8: the bundle's filename is the first non-empty filename among the
\* counted candidates in input order, or empty when there is none; the
\* same, independently, for fileUrl.
C8_FirstWinsMetadata ==
    \A b \in Assembled :
        /\ b.metadata.filename = FirstNonEmpty("filename", b.metadata.chunkCount)
        /\ b.metadata.fileUrl = FirstNonEmpty("fileUrl", b.metadata.chunkCount)

\* ["" , f, g]: the second candidate's filename is reported, not the third's.
C8_Witness ==
    /\ \E b \in Assembled : b.metadata.chunkCount = 3 /\ b.metadata.filename = <<"f">> /\ b.metadata.fileUrl = <<"u">>
    /\ StringField(Results[1], "filename") = <<>>
    /\ StringField(Results[3], "filename") = <<"g">>
    /\ StringField(Results[3], "fileUrl") = <<"v">>

\* ------------------------------------------------------------ Jira agent
\* process.env.JIRA_BASE_URL
EnvBaseUrl == "https://jira.example"

\* config.jiraBaseUrl starts as the environment's value; a value loaded
\* from Azure App Configuration may replace it.
ConfigBaseUrls == {EnvBaseUrl, "https://jira.appconfig.example"}

\* genericApiFunction: the schema of the one declared tool.
ToolName == "make_api_call"

SchemaMethods == {"GET", "POST", "PUT", "DELETE"}

SchemaRequired == {"method", "url", "headers"}

\* Whether an arguments object satisfies genericApiFunction.parameters.
SatisfiesSchema(args) ==
    /\ SchemaRequired \subseteq DOMAIN args
    /\ args.method \in SchemaMethods

\* What the model may propose.
FunctionNames == {ToolName, "delete_project"}

ProposedMethods == {"GET", "DELETE", "PATCH"}

ProposedUrls == {"https://jira.example/rest/api/3/search", "https://evil.example/collect"}

NoHeaders == [k \in {} |-> ""]

ProposedHeaders ==
    {NoHeaders, [k \in {"Authorization"} |-> "Basic forged"], [k \in {"authorization"} |-> "Basic forged"]}

ArgumentObjects ==
    {[f \in F |-> IF f = "method" THEN m ELSE IF f = "url" THEN u ELSE h] :
        F \in SUBSET SchemaRequired, m \in ProposedMethods, u \in ProposedUrls, h \in ProposedHeaders}

\* functionCall.arguments is JSON text: not parsable, the text null, or
\* the text of an object.
ArgumentTexts ==
    {[kind |-> "malformed"], [kind |-> "null"]} \cup {[kind |-> "object", value |-> a] : a \in ArgumentObjects}

Contents == {"", "The answer."}

\* response.choices[0].message
ModelMessages ==
    {[role |-> "assistant", content |-> c] : c \in Contents}
    \cup {[role |-> "assistant", content |-> c, functionCall |-> [name |-> n, arguments |-> a]] :
            c \in Contents, n \in FunctionNames, a \in ArgumentTexts}

HasFunctionCall(m) == "functionCall" \in DOMAIN m

\* The secret the key vault holds under JiraApiToken.
VaultSecret == "vault-token"

\* "Basic " + Buffer.from(config.jiraUsername + ":" + apiToken).toString("base64")
BasicAuthorization(username, apiToken) ==
    IF username = "bot" /\ apiToken = VaultSecret THEN "Basic Ym90OnZhdWx0LXRva2Vu" ELSE "Basic other"

authHeaders(apiToken) ==
    [k \in {"Authorization", "Content-Type"} |->
        IF k = "Authorization" THEN BasicAuthorization("bot", apiToken) ELSE "application/json"]

\* { ...headers, ...authHeaders }
MergeHeaders(headers, auth) ==
    [k \in (DOMAIN headers) \cup (DOMAIN auth) |-> IF k \in DOMAIN auth THEN auth[k] ELSE headers[k]]

\* The destructured parameter list of makeApiRequest: headers = {}.
HeadersOf(args) == IF "headers" \in DOMAIN args THEN args.headers ELSE NoHeaders

\* The request handed to axios: the supplied method and url, merged headers.
AxiosRequest(args, apiToken) ==
    [f \in ((DOMAIN args) \cap {"method", "url"}) \cup {"headers"} |->
        IF f = "headers" THEN MergeHeaders(HeadersOf(args), authHeaders(apiToken)) ELSE args[f]]

Send(text) == sent' = Append(sent, text)

OuterFallback == "I'm sorry, I encountered an error while processing your request."

ToolFallback == "I encountered an error fetching the Jira issues. Please try again later."

SynthesisFallback == "I encountered an error generating the response. Please try again later."

\* `Unknown function: ${functionName}`, over the names a response can carry.
UnknownFunction(functionName) ==
    IF functionName = ToolName THEN "Unknown function: make_api_call" ELSE "Unknown function: delete_project"

InitAgent ==
    /\ searchResults = [present |-> FALSE, results |-> <<>>]
    /\ tokenizer = "words"
    /\ maxTokens = 0
    /\ AssemblerStart
    /\ configBaseUrl \in ConfigBaseUrls
    /\ AgentStart
    /\ ExtStart

\* handleMessage -> handleApiQuery -> processApiQuery up to the first
\* getOpenAIResponse(messages, functions).
StartQuery ==
    /\ agentPc = "start"
    /\ messages' = <<[role |-> "system", content |-> "initialPrompt"]>>
    /\ modelRequests' = Append(modelRequests, [messages |-> messages', functions |-> {ToolName}])
    /\ agentPc' = "model1"
    /\ UNCHANGED <<asmVars, extVars, modelErrors, configBaseUrl, assistantResponse, functionArgs, vaultCalls, httpRequests,
                   functionResult, sent, dynamicResponse>>

\* The first model call throws: the error leaves processApiQuery and
\* handleApiQuery and is caught in handleMessage.
FirstModelError ==
    /\ agentPc = "model1"
    /\ modelErrors' = modelErrors + 1
    /\ Send(OuterFallback)
    /\ agentPc' = "done"
    /\ UNCHANGED <<asmVars, extVars, configBaseUrl, messages, assistantResponse, functionArgs, modelRequests,
                   vaultCalls, httpRequests, functionResult, dynamicResponse>>

\* messages.push(assistantResponse)
Receive(m) ==
    /\ agentPc = "model1"
    /\ assistantResponse' = {m}
    /\ messages' = Append(messages, m)

\* JSON.parse(arguments) throws; caught in handleMessage.
FirstModelBadArguments ==
    /\ \E m \in ModelMessages :
        /\ HasFunctionCall(m)
        /\ m.functionCall.arguments.kind = "malformed"
        /\ Receive(m)
    /\ Send(OuterFallback)
    /\ agentPc' = "done"
    /\ UNCHANGED <<asmVars, extVars, modelErrors, configBaseUrl, functionArgs, modelRequests, vaultCalls, httpRequests, functionResult, dynamicResponse>>

\* Variant: a proposal is dispatched whatever its function name.
FirstModelUnknownFunctionDispatch ==
    /\ \E m \in ModelMessages :
        /\ HasFunctionCall(m)
        /\ m.functionCall.arguments.kind = "object"
        /\ m.functionCall.name # ToolName
        /\ Receive(m)
        /\ functionArgs' = {m.functionCall.arguments.value}
    /\ vaultCalls' = vaultCalls + 1
    /\ agentPc' = "vault"
    /\ UNCHANGED <<asmVars, extVars, modelErrors, configBaseUrl, modelRequests, httpRequests, functionResult, sent, dynamicResponse>>

FirstModelUnknownFunction ==
    /\ \E m \in ModelMessages :
        /\ HasFunctionCall(m)
        /\ m.functionCall.arguments.kind # "malformed"
        /\ m.functionCall.name # ToolName
        /\ Receive(m)
        /\ Send(UnknownFunction(m.functionCall.name))
    /\ agentPc' = "done"
    /\ UNCHANGED <<asmVars, extVars, modelErrors, configBaseUrl, functionArgs, modelRequests, vaultCalls, httpRequests, functionResult, dynamicResponse>>

\* makeApiRequest(null): destructuring throws inside the try block.
FirstModelNullArguments ==
    /\ \E m \in ModelMessages :
        /\ HasFunctionCall(m)
        /\ m.functionCall.arguments.kind = "null"
        /\ m.functionCall.name = ToolName
        /\ Receive(m)
    /\ Send(ToolFallback)
    /\ agentPc' = "done"
    /\ UNCHANGED <<asmVars, extVars, modelErrors, configBaseUrl, functionArgs, modelRequests, vaultCalls, httpRequests, functionResult, dynamicResponse>>

\* makeApiRequest(functionArgs) up to getJiraApiToken's client.getSecret.
FirstModelToolCall ==
    /\ \E m \in ModelMessages :
        /\ HasFunctionCall(m)
        /\ m.functionCall.arguments.kind = "object"
        /\ m.functionCall.name = ToolName
        /\ Receive(m)
        /\ functionArgs' = {m.functionCall.arguments.value}
    /\ vaultCalls' = vaultCalls + 1
    /\ agentPc' = "vault"
    /\ UNCHANGED <<asmVars, extVars, modelErrors, configBaseUrl, modelRequests, httpRequests, functionResult, sent, dynamicResponse>>

\* Variant: the content of the first response is handed to a second model call.
FirstModelContentPolished ==
    /\ \E m \in ModelMessages :
        /\ ~HasFunctionCall(m)
        /\ m.content # ""
        /\ Receive(m)
    /\ modelRequests' = Append(modelRequests, [messages |-> messages', functions |-> {}])
    /\ agentPc' = "model2"
    /\ UNCHANGED <<asmVars, extVars, modelErrors, configBaseUrl, functionArgs, vaultCalls, httpRequests,
                   functionResult, sent, dynamicResponse>>

FirstModelContent ==
    /\ \E m \in ModelMessages :
        /\ ~HasFunctionCall(m)
        /\ m.content # ""
        /\ Receive(m)
        /\ Send(m.content)
    /\ agentPc' = "done"
    /\ UNCHANGED <<asmVars, extVars, modelErrors, configBaseUrl, functionArgs, modelRequests, vaultCalls, httpRequests, functionResult, dynamicResponse>>

\* Variant: a response without function call and content is dropped.
FirstModelEmptySilent ==
    /\ \E m \in ModelMessages :
        /\ ~HasFunctionCall(m)
        /\ m.content = ""
        /\ Receive(m)
    /\ agentPc' = "done"
    /\ UNCHANGED <<asmVars, extVars, modelErrors, configBaseUrl, functionArgs, modelRequests, vaultCalls, httpRequests,
                   functionResult, sent, dynamicResponse>>

FirstModelEmpty ==
    /\ \E m \in ModelMessages :
        /\ ~HasFunctionCall(m)
        /\ m.content = ""
        /\ Receive(m)
    /\ Send("Unable to process the assistant response.")
    /\ agentPc' = "done"
    /\ UNCHANGED <<asmVars, extVars, modelErrors, configBaseUrl, functionArgs, modelRequests, vaultCalls, httpRequests, functionResult, dynamicResponse>>

\* Variant: a failed key vault lookup is attempted again.
VaultFailRetry ==
    /\ agentPc = "vault"
    /\ vaultCalls < 3
    /\ vaultCalls' = vaultCalls + 1
    /\ UNCHANGED <<asmVars, extVars, modelErrors, configBaseUrl, agentPc, messages, assistantResponse, functionArgs,
                   modelRequests, httpRequests, functionResult, sent, dynamicResponse>>

\* Variant: after a failed key vault lookup the request goes out with the
\* supplied headers only.
VaultFailUnauthenticated ==
    /\ agentPc = "vault"
    /\ \E args \in functionArgs :
            httpRequests' = Append(httpRequests,
                [f \in ((DOMAIN args) \cap {"method", "url"}) \cup {"headers"} |->
                    IF f = "headers" THEN HeadersOf(args) ELSE args[f]])
    /\ agentPc' = "http"
    /\ UNCHANGED <<asmVars, extVars, modelErrors, configBaseUrl, messages, assistantResponse, functionArgs, modelRequests,
                   vaultCalls, functionResult, sent, dynamicResponse>>

\* getJiraApiToken throws; caught in processApiQuery.
VaultFail ==
    /\ agentPc = "vault"
    /\ Send(ToolFallback)
    /\ agentPc' = "done"
    /\ UNCHANGED <<asmVars, extVars, modelErrors, configBaseUrl, messages, assistantResponse, functionArgs, modelRequests,
                   vaultCalls, httpRequests, functionResult, dynamicResponse>>

\* The token arrives; makeApiRequest up to the axios call.
VaultOk ==
    /\ agentPc = "vault"
    /\ \E args \in functionArgs : httpRequests' = Append(httpRequests, AxiosRequest(args, VaultSecret))
    /\ agentPc' = "http"
    /\ UNCHANGED <<asmVars, extVars, modelErrors, configBaseUrl, messages, assistantResponse, functionArgs, modelRequests,
                   vaultCalls, functionResult, sent, dynamicResponse>>

\* The token arrives; axios rejects a request without a url before
\* sending anything; caught in processApiQuery.
VaultOkNoUrl ==
    /\ agentPc = "vault"
    /\ \E args \in functionArgs : "url" \notin DOMAIN args
    /\ Send(ToolFallback)
    /\ agentPc' = "done"
    /\ UNCHANGED <<asmVars, extVars, modelErrors, configBaseUrl, messages, assistantResponse, functionArgs, modelRequests,
                   vaultCalls, httpRequests, functionResult, dynamicResponse>>

\* error.response.data of a failed HTTP call.
ErrorBody == "error.response.data"

\* Variant: the user is sent the body of the failed response.
HttpFailLeaksBody ==
    /\ agentPc = "http"
    /\ Send(ErrorBody)
    /\ agentPc' = "done"
    /\ UNCHANGED <<asmVars, extVars, modelErrors, configBaseUrl, messages, assistantResponse, functionArgs,
                   modelRequests, vaultCalls, httpRequests, functionResult, dynamicResponse>>

\* Variant: the error of the HTTP call goes to the model as the tool result.
HttpFailSurfaced ==
    /\ agentPc = "http"
    /\ functionResult' = {"error.message"}
    /\ modelRequests' = Append(modelRequests,
            [messages |-> <<[role |-> "system", content |-> "dynamicPrompt", apiResult |-> "error.message"]>>,
             functions |-> {}])
    /\ agentPc' = "model2"
    /\ UNCHANGED <<asmVars, extVars, modelErrors, configBaseUrl, messages, assistantResponse, functionArgs,
                   vaultCalls, httpRequests, sent, dynamicResponse>>

\* The HTTP call fails (transport error or non-2xx); caught in processApiQuery.
HttpFail ==
    /\ agentPc = "http"
    /\ Send(ToolFallback)
    /\ agentPc' = "done"
    /\ UNCHANGED <<asmVars, extVars, modelErrors, configBaseUrl, messages, assistantResponse, functionArgs, modelRequests,
                   vaultCalls, httpRequests, functionResult, dynamicResponse>>

\* Variant: the tool result goes back to the tool-proposing model call.
HttpOkAgain ==
    /\ agentPc = "http"
    /\ Len(modelRequests) < 4
    /\ functionResult' = {"response.data"}
    /\ modelRequests' = Append(modelRequests, [messages |-> messages, functions |-> {ToolName}])
    /\ agentPc' = "model1"
    /\ UNCHANGED <<asmVars, extVars, modelErrors, configBaseUrl, messages, assistantResponse, functionArgs, vaultCalls, httpRequests,
                   sent, dynamicResponse>>

\* The HTTP call succeeds; generateDynamicResponse up to its
\* getOpenAIResponse(messages), a fresh transcript and no functions.
HttpOkSynthesize ==
    /\ agentPc = "http"
    /\ configBaseUrl = EnvBaseUrl
    /\ functionResult' = {"response.data"}
    /\ modelRequests' = Append(modelRequests,
            [messages |-> <<[role |-> "system", content |-> "dynamicPrompt", apiResult |-> "response.data"]>>,
             functions |-> {}])
    /\ agentPc' = "model2"
    /\ UNCHANGED <<asmVars, extVars, modelErrors, configBaseUrl, messages, assistantResponse, functionArgs, vaultCalls, httpRequests, sent, dynamicResponse>>

HttpOkBaseUrlMismatch ==
    /\ agentPc = "http"
    /\ configBaseUrl # EnvBaseUrl
    /\ functionResult' = {"response.data"}
    /\ Send("Unable to process the API response.")
    /\ agentPc' = "done"
    /\ UNCHANGED <<asmVars, extVars, modelErrors, configBaseUrl, messages, assistantResponse, functionArgs, modelRequests,
                   vaultCalls, httpRequests, dynamicResponse>>

\* Variant: a function call in the second response is executed.
SecondModelToolCall ==
    /\ agentPc = "model2"
    /\ vaultCalls < 3
    /\ \E m \in ModelMessages : m.content # "" /\ HasFunctionCall(m) /\ dynamicResponse' = {m}
    /\ vaultCalls' = vaultCalls + 1
    /\ agentPc' = "vault"
    /\ UNCHANGED <<asmVars, extVars, modelErrors, configBaseUrl, messages, assistantResponse, functionArgs,
                   modelRequests, httpRequests, functionResult, sent>>

\* The second response has content; a function call in it is not looked at.
SecondModelContent ==
    /\ agentPc = "model2"
    /\ \E m \in ModelMessages : m.content # "" /\ dynamicResponse' = {m} /\ Send(m.content)
    /\ agentPc' = "done"
    /\ UNCHANGED <<asmVars, extVars, modelErrors, configBaseUrl, messages, assistantResponse, functionArgs, modelRequests,
                   vaultCalls, httpRequests, functionResult>>

SecondModelEmpty ==
    /\ agentPc = "model2"
    /\ \E m \in ModelMessages : m.content = "" /\ dynamicResponse' = {m}
    /\ Send("I was unable to generate a response based on the API data.")
    /\ agentPc' = "done"
    /\ UNCHANGED <<asmVars, extVars, modelErrors, configBaseUrl, messages, assistantResponse, functionArgs, modelRequests,
                   vaultCalls, httpRequests, functionResult>>

\* Variant: the second model call throws and is issued again.
SecondModelErrorRetry ==
    /\ agentPc = "model2"
    /\ Len(modelRequests) < 4
    /\ modelErrors' = modelErrors + 1
    /\ modelRequests' = Append(modelRequests, modelRequests[Len(modelRequests)])
    /\ UNCHANGED <<asmVars, extVars, configBaseUrl, agentPc, messages, assistantResponse, functionArgs,
                   vaultCalls, httpRequests, functionResult, sent, dynamicResponse>>

\* The second model call throws; caught in generateDynamicResponse.
SecondModelError ==
    /\ agentPc = "model2"
    /\ modelErrors' = modelErrors + 1
    /\ Send(SynthesisFallback)
    /\ agentPc' = "done"
    /\ UNCHANGED <<asmVars, extVars, configBaseUrl, messages, assistantResponse, functionArgs, modelRequests,
                   vaultCalls, httpRequests, functionResult, dynamicResponse>>

NextAgent ==
    \/ StartQuery
    \/ FirstModelError
    \/ FirstModelBadArguments
    \/ FirstModelUnknownFunction
    \/ FirstModelNullArguments
    \/ FirstModelToolCall
    \/ FirstModelContent
    \/ FirstModelEmpty
    \/ VaultFail
    \/ VaultOk
    \/ VaultOkNoUrl
    \/ HttpFail
    \/ HttpOkSynthesize
    \/ HttpOkBaseUrlMismatch
    \/ SecondModelContent
    \/ SecondModelEmpty
    \/ SecondModelError

SpecAgent == InitAgent /\ [][NextAgent]_vars

\* Every call the query awaits settles: the awaited promise resolves or rejects.
FairSpecAgent == SpecAgent /\ WF_vars(NextAgent)

\* ------------------------------------------------- properties of the agent
ModelCalls == Len(modelRequests)

HttpCalls == Len(httpRequests)

\* C9: whatever the model and the API answer, the query ends, after at
\* most two model calls and at most one tool execution.
C9_AgentTerminates ==
    /\ <>(agentPc = "done")
    /\ [](ModelCalls <= 2 /\ HttpCalls <= 1 /\ vaultCalls <= 1)

\* Both model responses carried a tool call, and the query ended.
C9_Witness ==
    /\ agentPc = "done"
    /\ ModelCalls = 2
    /\ HttpCalls = 1
    /\ \E m \in assistantResponse : HasFunctionCall(m)
    /\ \E m \in dynamicResponse : HasFunctionCall(m)

\* The arguments text parses to an object that satisfies the tool schema.
ValidArguments(a) == a.kind = "object" /\ SatisfiesSchema(a.value)

\* C10: a make_api_call proposal whose arguments do not satisfy the schema
\* causes no key vault lookup and no HTTP call.
C10_InvalidArgumentsNotExecuted ==
    \A m \in assistantResponse :
        (HasFunctionCall(m) /\ m.functionCall.name = ToolName /\ ~ValidArguments(m.functionCall.arguments))
            => (vaultCalls = 0 /\ HttpCalls = 0)

\* HTTP header names are case-insensitive: the names that denote the
\* authentication header.
AuthenticationHeaderNames == {"Authorization", "authorization"}

\* The header values the model proposed.
ModelSuppliedValues == UNION {{h[k] : k \in AuthenticationHeaderNames \cap DOMAIN h} : h \in ProposedHeaders}

\* The requests that name a destination (what the transport does with a
\* request without url is left open).
Addressed == {i \in 1..Len(httpRequests) : "url" \in DOMAIN httpRequests[i]}

\* C11: in every request makeApiRequest sends, the Authorization header
\* carries the injected credential, and no header that names the
\* authentication header carries a value the model supplied.
C11_CredentialOverride ==
    \A i \in Addressed :
        LET headers == httpRequests[i].headers
        IN  /\ headers["Authorization"] = BasicAuthorization("bot", VaultSecret)
            /\ headers["Content-Type"] = "application/json"
            /\ \A k \in AuthenticationHeaderNames \cap DOMAIN headers : headers[k] \notin ModelSuppliedValues

\* The scheme and host a URL addresses.
BaseOf(url) ==
    IF url = "https://jira.example/rest/api/3/search" THEN "https://jira.example" ELSE "https://evil.example"

\* C12: every request sent with the injected credential goes to the base
\* URL of the environment, never to a destination the model chose.
C12_CredentialOnlyToBaseUrl ==
    \A i \in Addressed :
        LET r == httpRequests[i]
        IN  r.headers["Authorization"] = BasicAuthorization("bot", VaultSecret) => BaseOf(r.url) = EnvBaseUrl

\* The synthesis request generateDynamicResponse issues for the tool result r.
SynthesisRequest(r) ==
    [messages |-> <<[role |-> "system", content |-> "dynamicPrompt", apiResult |-> r]>>, functions |-> {}]

C14_ContentIsFinalAnswer ==
    \A m \in assistantResponse :
        (~HasFunctionCall(m) /\ m.content # "")
            => /\ agentPc = "done"
               /\ sent = <<m.content>>
               /\ vaultCalls = 0
               /\ HttpCalls = 0
               /\ ModelCalls = 1
               /\ functionResult = {}
               /\ dynamicResponse = {}

\* The first response was free-form content and the query has ended.
C14_Witness ==
    /\ agentPc = "done"
    /\ \E m \in assistantResponse : ~HasFunctionCall(m) /\ m.content = "The answer."
    /\ sent = <<"The answer.">>

\* The messages the user gets when a model call threw.
ModelErrorFallbacks == {OuterFallback, SynthesisFallback}

\* C15: once a model call has thrown, the query has ended with exactly one
\* fallback message to the user, and no model call, key vault lookup or
\* HTTP call is issued from then on.
C15_ModelErrorEndsFlow ==
    /\ [](modelErrors > 0 => /\ agentPc = "done"
                             /\ modelErrors = 1
                             /\ Len(sent) = 1
                             /\ sent[1] \in ModelErrorFallbacks)
    /\ [][modelErrors > 0 => /\ ModelCalls' = ModelCalls
                             /\ HttpCalls' = HttpCalls
                             /\ vaultCalls' = vaultCalls]_vars

\* The synthesis call threw after a successful tool execution.
C15_Witness ==
    /\ modelErrors = 1
    /\ ModelCalls = 2
    /\ HttpCalls = 1
    /\ sent = <<SynthesisFallback>>

\* ---------------------------------------------------------------- renderData
EmptyVector == <<>>

\* What embeddings.createEmbeddings may resolve to.
EmbeddingResults ==
    { [status |-> "success", output |-> <<"vector">>],
      [status |-> "success", output |-> EmptyVector],
      [status |-> "success"],
      [status |-> "error"],
      [status |-> "error", output |-> <<"vector">>] }

\* result.status !== "success" || !result.output throws; an empty output
\* array throws at result.output[0].length.
EmbeddingRefused(result) ==
    IF result.status # "success" \/ "output" \notin DOMAIN result THEN TRUE ELSE Len(result.output) = 0

\* What the hybrid search may return: documents with the selected fields.
SearchOutputs == SeqsUpTo({SelectFields(d) : d \in IndexDocuments}, MaxCands)

\* The awaited call rejected instead of resolving to a result.
Threw == [status |-> "threw"]

\* The catch blocks of a stage and of renderData: logError, then rethrow.
Rethrow(stage, cause) ==
    /\ errorLog' = errorLog \o <<stage, "RENDER_DATA">>
    /\ thrown' = {[stage |-> stage, cause |-> cause]}
    /\ renderPc' = "threw"

\* renderData is called: its arguments, nothing processed yet.
RenderCall ==
    /\ searchResults = [present |-> FALSE, results |-> <<>>]
    /\ tokenizer \in Tokenizers
    /\ maxTokens \in 0..MaxTokens
    /\ pc = "idle"
    /\ usedTokens = 0
    /\ allContent = <<>>
    /\ filename = <<>>
    /\ fileUrl = <<>>
    /\ chunkCount = 0
    /\ totalChunks = 0
    /\ processedCount = 0
    /\ truncated = FALSE
    /\ encodeCalls = 0
    /\ returned = {}
    /\ configBaseUrl = "https://jira.example"
    /\ CallerStart
    /\ LoggerIdle
    /\ ConfigIdle
    /\ useAppConfig = FALSE
    /\ renderPc = "start"
    /\ query \in {"", "q"}
    /\ renderResult = {}
    /\ thrown = {}
    /\ errorLog = <<>>
    /\ renderCalls = <<>>

InitRender == RenderCall /\ AgentStart

\* Early exit if no query.
RenderNoQuery ==
    /\ renderPc = "start"
    /\ query = ""
    /\ renderResult' = {[output |-> <<>>, length |-> 0, tooLong |-> FALSE]}
    /\ renderPc' = "returned"
    /\ UNCHANGED <<asmVars, agentVars, cancelledAt, firstReturned, loggerVars, configVars, renderCalls, query, thrown, errorLog>>

\* Variant: the search is started together with the embedding call.
RenderEmbedEager ==
    /\ renderPc = "start"
    /\ query # ""
    /\ renderPc' = "embedding"
    /\ renderCalls' = renderCalls \o <<"embedding", "search">>
    /\ UNCHANGED <<asmVars, agentVars, cancelledAt, firstReturned, loggerVars, configVars, query, renderResult,
                   thrown, errorLog>>

\* renderData up to embeddings.createEmbeddings in getEmbeddingVector.
RenderEmbed ==
    /\ renderPc = "start"
    /\ query # ""
    /\ renderPc' = "embedding"
    /\ renderCalls' = Append(renderCalls, "embedding")
    /\ UNCHANGED <<asmVars, agentVars, cancelledAt, firstReturned, loggerVars, configVars, query, renderResult, thrown, errorLog>>

\* Variant: a failed embedding is answered with the empty bundle.
EmbeddingFailAsEmpty ==
    /\ renderPc = "embedding"
    /\ errorLog' = errorLog \o <<"EMBEDDING">>
    /\ renderResult' = {[output |-> <<>>, length |-> 0, tooLong |-> FALSE]}
    /\ renderPc' = "returned"
    /\ UNCHANGED <<asmVars, agentVars, cancelledAt, firstReturned, loggerVars, configVars, renderCalls, query, thrown>>

\* createEmbeddings throws, or resolves to a result that is refused.
EmbeddingFail ==
    /\ renderPc = "embedding"
    /\ \/ Rethrow("EMBEDDING", Threw)
       \/ \E result \in EmbeddingResults : EmbeddingRefused(result) /\ Rethrow("EMBEDDING", result)
    /\ UNCHANGED <<asmVars, agentVars, cancelledAt, firstReturned, loggerVars, configVars, renderCalls, query, renderResult>>

\* The vector arrives; performHybridSearch up to searchClient.search.
EmbeddingOk ==
    /\ renderPc = "embedding"
    /\ \E result \in EmbeddingResults : ~EmbeddingRefused(result)
    /\ renderPc' = "search"
    /\ renderCalls' = Append(renderCalls, "search")
    /\ UNCHANGED <<asmVars, agentVars, cancelledAt, firstReturned, loggerVars, configVars, query, renderResult, thrown, errorLog>>

\* searchClient.search or the iteration over its results throws.
SearchFail ==
    /\ renderPc = "search"
    /\ Rethrow("HYBRID_SEARCH", Threw)
    /\ UNCHANGED <<asmVars, agentVars, cancelledAt, firstReturned, loggerVars, configVars, renderCalls, query, renderResult>>

\* The search returns { results }; processSearchResults is called with it.
SearchOk ==
    /\ renderPc = "search"
    /\ \E results \in SearchOutputs : searchResults' = [present |-> TRUE, results |-> results]
    /\ pc' = "start"
    /\ renderPc' = "processing"
    /\ renderCalls' = Append(renderCalls, "processing")
    /\ UNCHANGED <<tokenizer, maxTokens, asmLocals, encodeCalls, returned, agentVars, cancelledAt, firstReturned,
                   loggerVars, configVars, query, renderResult, thrown, errorLog>>

\* Variant: when tokenizer.encode throws, what was accumulated is returned.
EncodeThrowsPartial ==
    /\ renderPc = "processing"
    /\ pc \in {"loop", "format"}
    /\ processedCount' = IF pc = "loop" /\ processedCount < Len(searchResults.results)
                         THEN processedCount + 1 ELSE processedCount
    /\ encodeCalls' = encodeCalls + 1
    /\ errorLog' = errorLog \o <<"PROCESS_RESULTS">>
    /\ returned' = {[output |-> allContent, length |-> usedTokens, tooLong |-> FALSE,
                     metadata |-> [filename |-> filename, fileUrl |-> fileUrl, chunkCount |-> chunkCount,
                                   totalChunks |-> totalChunks, truncated |-> TRUE]]}
    /\ pc' = "done"
    /\ UNCHANGED <<asmInputs, usedTokens, allContent, filename, fileUrl, chunkCount, totalChunks, truncated,
                   agentVars, cancelledAt, firstReturned, loggerVars, configVars, renderCalls, renderPc, query, renderResult, thrown>>

\* tokenizer.encode throws, in the loop or on the output string.
EncodeThrows ==
    /\ renderPc = "processing"
    /\ pc \in {"loop", "format"}
    /\ processedCount' = IF pc = "loop" /\ processedCount < Len(searchResults.results)
                         THEN processedCount + 1 ELSE processedCount
    /\ encodeCalls' = encodeCalls + 1
    /\ pc' = "threw"
    /\ Rethrow("PROCESS_RESULTS", Threw)
    /\ UNCHANGED <<asmInputs, usedTokens, allContent, filename, fileUrl, chunkCount, totalChunks, truncated,
                   returned, agentVars, cancelledAt, firstReturned, loggerVars, configVars, renderCalls, query, renderResult>>

\* return results
RenderReturn ==
    /\ renderPc = "processing"
    /\ pc = "done"
    /\ renderResult' = returned
    /\ renderPc' = "returned"
    /\ UNCHANGED <<asmVars, agentVars, cancelledAt, firstReturned, loggerVars, configVars, renderCalls, query, thrown, errorLog>>

NextRender ==
    \/ RenderNoQuery
    \/ RenderEmbed
    \/ EmbeddingFail
    \/ EmbeddingOk
    \/ SearchFail
    \/ SearchOk
    \/ NextAssembler
    \/ EncodeThrows
    \/ RenderReturn

SpecRender == InitRender /\ [][NextRender]_vars

\* C16: once a stage of renderData has logged an error, renderData has
\* thrown that error and returned nothing; and the empty bundle is returned
\* only for an empty query or an empty list of search results.
C16_StageFailureFailsRender ==
    /\ errorLog # <<>> => /\ renderPc = "threw"
                          /\ renderResult = {}
                          /\ \E e \in thrown : e.stage = errorLog[1]
    /\ \A b \in renderResult :
            b = EmptyBundle => (query = "" \/ (searchResults.present /\ Len(searchResults.results) = 0))

\* The embedding result was refused and renderData threw.
C16_Witness ==
    /\ renderPc = "threw"
    /\ renderResult = {}
    /\ \E e \in thrown : e.stage = "EMBEDDING" /\ e.cause = [status |-> "error"]

\* ---------------------------------------------------------------- LoggingUtil
\* ...this.userProperties in the properties of an event.
LoggedUser == IF "userId" \in DOMAIN userProperties THEN userProperties.userId ELSE "undefined"

\* logger.logEvent(name, ...) for each name, called while handling message t.
LogEvents(t, names) ==
    events' = events \o [i \in 1..Len(names) |-> [by |-> t, name |-> names[i], userId |-> LoggedUser]]

InitLogging ==
    /\ searchResults = [present |-> FALSE, results |-> <<>>]
    /\ tokenizer = "words"
    /\ maxTokens = 0
    /\ AssemblerStart
    /\ configBaseUrl = "https://jira.example"
    /\ AgentStart
    /\ CallerStart
    /\ RenderIdle
    /\ ConfigIdle
    /\ useAppConfig = FALSE
    /\ userProperties = NoUserProperties
    /\ logPc = [t \in Turns |-> "arriving"]
    /\ events = <<>>

\* handleMessage: setUserContext, MESSAGE_RECEIVED; handleRagAndLlm:
\* MESSAGE_START, completePrompt; renderData up to the createEmbeddings
\* call, the first network call of the message (the planner's own awaits
\* before it are taken not to let another message in).
MessageArrives(t) ==
    /\ logPc[t] = "arriving"
    /\ userProperties' = [userId |-> UserOf[t]]
    /\ events' = events \o <<[by |-> t, name |-> "USER_CONTEXT_SET", userId |-> UserOf[t]],
                              [by |-> t, name |-> "MESSAGE_RECEIVED", userId |-> UserOf[t]],
                              [by |-> t, name |-> "MESSAGE_START", userId |-> UserOf[t]],
                              [by |-> t, name |-> "RENDER_DATA_START", userId |-> UserOf[t]],
                              [by |-> t, name |-> "EMBEDDING_START", userId |-> UserOf[t]]>>
    /\ logPc' = [logPc EXCEPT ![t] = "embedding"]
    /\ UNCHANGED <<asmVars, agentVars, cancelledAt, firstReturned, renderVars, configVars>>

\* The embedding arrives; performHybridSearch up to searchClient.search.
EmbeddingReturns(t) ==
    /\ logPc[t] = "embedding"
    /\ LogEvents(t, <<"HYBRID_SEARCH_START">>)
    /\ logPc' = [logPc EXCEPT ![t] = "search"]
    /\ UNCHANGED <<asmVars, agentVars, cancelledAt, firstReturned, renderVars, configVars, userProperties>>

\* The search results arrive; processSearchResults runs; the planner calls
\* the model.
SearchReturns(t) ==
    /\ logPc[t] = "search"
    /\ LogEvents(t, <<"PROCESS_RESULTS_START">>)
    /\ logPc' = [logPc EXCEPT ![t] = "model"]
    /\ UNCHANGED <<asmVars, agentVars, cancelledAt, firstReturned, renderVars, configVars, userProperties>>

\* completePrompt resolves; logOperation('MESSAGE') logs unless throttled.
PlannerReturns(t) ==
    /\ logPc[t] = "model"
    /\ \/ LogEvents(t, <<"OPERATION_MESSAGE">>)
       \/ UNCHANGED events
    /\ logPc' = [logPc EXCEPT ![t] = "done"]
    /\ UNCHANGED <<asmVars, agentVars, cancelledAt, firstReturned, renderVars, configVars, userProperties>>

NextLogging ==
    \E t \in Turns :
        \/ MessageArrives(t)
        \/ EmbeddingReturns(t)
        \/ SearchReturns(t)
        \/ PlannerReturns(t)

SpecLogging == InitLogging /\ [][NextLogging]_vars

\* C17: the user context attached to a logged event is that of the user
\* whose message logged it, under every interleaving of two messages.
C17_EventsCarryOwnUser == \A i \in 1..Len(events) : events[i].userId = UserOf[events[i].by]

\* ------------------------------------------- processSearchResults, twice
\* The caller keeps the bundle and calls processSearchResults again with
\* the same searchResults, tokenizer and maxTokens.
CallAgain ==
    /\ pc = "done"
    /\ firstReturned = {}
    /\ firstReturned' = returned
    /\ returned' = {}
    /\ pc' = "start"
    /\ UNCHANGED <<asmInputs, asmLocals, encodeCalls, agentVars, cancelledAt, renderVars, loggerVars, configVars>>

NextAssemblerTwice == NextAssembler \/ CallAgain

SpecAssemblerTwice == InitAssembler /\ [][NextAssemblerTwice]_vars

\* C18: a second call with the same candidates, tokenizer and maxTokens
\* returns the same bundle as the first.
C18_SecondCallSameBundle == (firstReturned # {} /\ returned # {}) => returned = firstReturned

\* Both calls returned a truncated bundle holding at least one chunk.
C18_Witness ==
    /\ firstReturned # {}
    /\ returned = firstReturned
    /\ \E b \in Assembled : b.metadata.chunkCount >= 1 /\ b.metadata.truncated

\* ------------------------------------------------- the caller gives up
\* The calls the Jira query has issued so far.
CallsIssued == [model |-> ModelCalls, vault |-> vaultCalls, http |-> HttpCalls]

\* The caller signals cancellation (or its deadline passes) while the query
\* is in flight.  No function of the query takes or reads such a signal.
Cancel ==
    /\ agentPc \in {"model1", "vault", "http", "model2"}
    /\ cancelledAt = {}
    /\ cancelledAt' = {CallsIssued}
    /\ UNCHANGED <<asmVars, agentVars, firstReturned, renderVars, loggerVars, configVars>>

NextAgentCancel == NextAgent \/ Cancel

SpecAgentCancel == InitAgent /\ [][NextAgentCancel]_vars

\* C19: once the caller has given up, the query issues no further model
\* call, key vault lookup or HTTP call.
C19_NoCallAfterCancel == \A c \in cancelledAt : CallsIssued = c

\* --------------------------------------------------------- totalChunks
\* The largest totalChunks field among the first k candidates (0 for none).
RECURSIVE MaxTotalChunks(_)
MaxTotalChunks(k) == IF k = 0 THEN 0 ELSE Max(MaxTotalChunks(k - 1), TotalChunksOrZero(Results[k]))

\* C20 as stated: metadata.totalChunks is the largest totalChunks field
\* among all candidates the loop processed, the rejected one included.
C20_TotalChunksOverProcessed ==
    \A b \in Assembled : b.metadata.totalChunks = MaxTotalChunks(processedCount)

\* C20, amended: metadata.totalChunks is the largest totalChunks field
\* among the included candidates only; the candidate rejected for
\* exceeding the budget does not count.
C20_TotalChunksOverIncluded ==
    \A b \in Assembled : b.metadata.totalChunks = MaxTotalChunks(b.metadata.chunkCount)

\* A truncated bundle whose rejected candidate has the largest totalChunks.
C20_Witness ==
    \E b \in Assembled :
        /\ b.metadata.truncated
        /\ b.metadata.chunkCount >= 1
        /\ processedCount = b.metadata.chunkCount + 1
        /\ MaxTotalChunks(processedCount) > b.metadata.totalChunks

\* --------------------------------------------------------- the token count
\* The output string of a call that included no chunk.
Wrapper == OutputString(0, 0, <<>>, maxTokens, <<>>, <<>>)

\* C21: the length of a bundle is the tokenizer's count of its complete
\* output string, and for a bundle built after the loop it is at least the
\* count of the wrapper alone.
C21_LengthCountsWholeOutput ==
    /\ \A b \in returned : b.length = Len(Encode(tokenizer, b.output))
    /\ \A b \in Assembled :
            /\ b.output = OutputString(b.metadata.chunkCount, b.metadata.totalChunks, allContent, maxTokens,
                                       b.metadata.filename, b.metadata.fileUrl)
            /\ b.length >= Len(Encode(tokenizer, Wrapper))
            /\ Len(Encode(tokenizer, Wrapper)) > 0

\* A bundle without chunks whose length is the count of the wrapper, and
\* not the running sum (which is 0).
C21_Witness ==
    \E b \in Assembled :
        /\ b.metadata.chunkCount = 0
        /\ usedTokens = 0
        /\ b.output = Wrapper
        /\ b.length = Len(Encode(tokenizer, Wrapper))
        /\ b.length > 0

\* ------------------------------------------------- failure while assembling
\* processSearchResults has logged an error.
ProcessingFailed == \E i \in 1..Len(errorLog) : errorLog[i] = "PROCESS_RESULTS"

\* C22: once tokenizing has failed, processSearchResults has thrown and no
\* bundle exists, whatever the earlier candidates had accumulated.
C22_NoPartialBundle ==
    ProcessingFailed => /\ pc = "threw"
                        /\ returned = {}
                        /\ renderResult = {}
                        /\ \E e \in thrown : e.stage = "PROCESS_RESULTS"

\* The tokenizer failed after one candidate had been accumulated.
C22_Witness ==
    /\ ProcessingFailed
    /\ pc = "threw"
    /\ chunkCount >= 1
    /\ allContent # <<>>
    /\ processedCount = chunkCount + 1

\* ------------------------------------------------------ the synthesis call
\* C23: the second model call carries no functions, and once it has
\* answered the query has ended: one message to the user, no further key
\* vault lookup, HTTP call or model call.
C23_SynthesisEndsFlow ==
    /\ ModelCalls >= 2 => modelRequests[2].functions = {}
    /\ dynamicResponse # {} => /\ agentPc = "done"
                               /\ ModelCalls = 2
                               /\ vaultCalls = 1
                               /\ HttpCalls = 1
                               /\ Len(sent) = 1

\* The second response carried a function call and no content.
C23_Witness ==
    /\ agentPc = "done"
    /\ \E m \in dynamicResponse : HasFunctionCall(m) /\ m.content = ""
    /\ sent = <<"I was unable to generate a response based on the API data.">>

\* ------------------------------------------------------ a failed execution
\* makeApiRequest was entered and produced no result, and the query ended.
ToolFailed == agentPc = "done" /\ vaultCalls = 1 /\ functionResult = {}

\* C24: a failed tool execution ends the query with the fixed fallback as
\* the only message; the body of the error is never sent, and neither the
\* model nor the tool is called again.
C24_ToolFailureIsTerminal ==
    /\ ToolFailed => /\ sent = <<ToolFallback>>
                     /\ ModelCalls = 1
                     /\ HttpCalls <= 1
                     /\ dynamicResponse = {}
    /\ \A i \in 1..Len(sent) : sent[i] # ErrorBody

\* The key vault lookup failed for a well-formed proposal.
C24_Witness ==
    /\ ToolFailed
    /\ HttpCalls = 0
    /\ \E a \in functionArgs : SatisfiesSchema(a)
    /\ sent = <<ToolFallback>>

\* ------------------------------------------------------------ one message
\* The message is not a Jira query: processApiQuery never runs.
AgentAbsent ==
    /\ agentPc = "idle"
    /\ messages = <<>>
    /\ assistantResponse = {}
    /\ functionArgs = {}
    /\ modelRequests = <<>>
    /\ vaultCalls = 0
    /\ httpRequests = <<>>
    /\ functionResult = {}
    /\ dynamicResponse = {}
    /\ sent = <<>>
    /\ modelErrors = 0

\* handleMessage routes a message to the Jira agent or to the RAG pipeline.
InitMessage == InitAgent \/ (RenderCall /\ AgentAbsent)

\* processSearchResults runs only as a stage of renderData.
NextMessage == NextAgent \/ (renderPc # "idle" /\ NextRender)

SpecMessage == InitMessage /\ [][NextMessage]_vars

\* How often renderData has invoked the stage.
Invocations(stage) == Cardinality({i \in 1..Len(renderCalls) : renderCalls[i] = stage})

\* C25: within one message every external call is issued at most once (the
\* second model call is the synthesis after a successful tool execution,
\* not a repetition), and a failed call ends its operation at once.
C25_NoRetry ==
    /\ vaultCalls <= 1
    /\ HttpCalls <= 1
    /\ ModelCalls <= 2
    /\ ModelCalls = 2 => (functionResult # {} /\ modelErrors <= 1 /\ modelRequests[2] # modelRequests[1])
    /\ \A stage \in {"embedding", "search", "processing"} : Invocations(stage) <= 1
    /\ modelErrors <= 1
    /\ modelErrors = 1 => agentPc = "done"
    /\ errorLog # <<>> => (renderPc = "threw" /\ Len(errorLog) = 2)
    /\ (vaultCalls = 1 /\ agentPc \notin {"vault", "http"} /\ functionResult = {}) => agentPc = "done"

\* The search failed after the embedding had succeeded.
C25_Witness ==
    /\ renderPc = "threw"
    /\ renderCalls = <<"embedding", "search">>
    /\ \E e \in thrown : e.stage = "HYBRID_SEARCH"

\* ------------------------------------------------------------ ConfigProvider
\* The object a getConfig call builds, from the remote settings or from
\* the environment alone; two calls never build the same object.
Built(c, source) == [by |-> c, source |-> source]

Finish(c, object) ==
    getConfigCalls' = [getConfigCalls EXCEPT ![c] = [@ EXCEPT !.pc = "done", !.result = {object}]]

InitConfig ==
    /\ searchResults = [present |-> FALSE, results |-> <<>>]
    /\ tokenizer = "words"
    /\ maxTokens = 0
    /\ AssemblerStart
    /\ configBaseUrl = "https://jira.example"
    /\ AgentStart
    /\ CallerStart
    /\ RenderIdle
    /\ LoggerIdle
    /\ ConfigIdle
    /\ useAppConfig \in BOOLEAN

\* if (this.cachedConfig) return this.cachedConfig
GetConfigCached(c) ==
    /\ getConfigCalls[c].pc = "idle"
    /\ cachedConfig # {}
    /\ getConfigCalls' = [getConfigCalls EXCEPT ![c] =
            [pc |-> "done", saw |-> cachedConfig, contacted |-> FALSE, result |-> cachedConfig]]
    /\ UNCHANGED <<asmVars, agentVars, cancelledAt, firstReturned, renderVars, loggerVars, useAppConfig,
                   cachedConfig, clears>>

\* The cache is empty: getConfig up to the iteration over
\* listConfigurationSettings.
GetConfigRemote(c) ==
    /\ getConfigCalls[c].pc = "idle"
    /\ cachedConfig = {}
    /\ useAppConfig
    /\ getConfigCalls' = [getConfigCalls EXCEPT ![c] =
            [pc |-> "fetching", saw |-> {}, contacted |-> TRUE, result |-> {}]]
    /\ UNCHANGED <<asmVars, agentVars, cancelledAt, firstReturned, renderVars, loggerVars, useAppConfig,
                   cachedConfig, clears>>

\* The cache is empty and App Configuration is not in use: the object is
\* built from the environment variables.
GetConfigEnv(c) ==
    /\ getConfigCalls[c].pc = "idle"
    /\ cachedConfig = {}
    /\ ~useAppConfig
    /\ cachedConfig' = {Built(c, "env")}
    /\ getConfigCalls' = [getConfigCalls EXCEPT ![c] =
            [pc |-> "done", saw |-> {}, contacted |-> FALSE, result |-> {Built(c, "env")}]]
    /\ UNCHANGED <<asmVars, agentVars, cancelledAt, firstReturned, renderVars, loggerVars, useAppConfig, clears>>

\* Variant: a call that finds the cache populated by another call keeps it.
RemoteOkFirstWriterWins(c) ==
    /\ getConfigCalls[c].pc = "fetching"
    /\ cachedConfig' = IF cachedConfig = {} THEN {Built(c, "remote")} ELSE cachedConfig
    /\ getConfigCalls' = [getConfigCalls EXCEPT ![c] = [@ EXCEPT !.pc = "done", !.result = cachedConfig']]
    /\ UNCHANGED <<asmVars, agentVars, cancelledAt, firstReturned, renderVars, loggerVars, useAppConfig, clears>>

\* The settings arrive: this.cachedConfig = {...}; return this.cachedConfig
RemoteOk(c) ==
    /\ getConfigCalls[c].pc = "fetching"
    /\ cachedConfig' = {Built(c, "remote")}
    /\ Finish(c, Built(c, "remote"))
    /\ UNCHANGED <<asmVars, agentVars, cancelledAt, firstReturned, renderVars, loggerVars, useAppConfig, clears>>

\* The fetch throws: caught, the object is built from the environment.
RemoteFail(c) ==
    /\ getConfigCalls[c].pc = "fetching"
    /\ cachedConfig' = {Built(c, "env")}
    /\ Finish(c, Built(c, "env"))
    /\ UNCHANGED <<asmVars, agentVars, cancelledAt, firstReturned, renderVars, loggerVars, useAppConfig, clears>>

\* clearCache(): this.cachedConfig = null
ClearCache ==
    /\ clears < MaxConfigCalls
    /\ cachedConfig' = {}
    /\ clears' = clears + 1
    /\ UNCHANGED <<asmVars, agentVars, cancelledAt, firstReturned, renderVars, loggerVars, useAppConfig,
                   getConfigCalls>>

NextConfig ==
    \/ \E c \in ConfigCalls :
            \/ GetConfigCached(c)
            \/ GetConfigRemote(c)
            \/ GetConfigEnv(c)
            \/ RemoteOk(c)
            \/ RemoteFail(c)
    \/ ClearCache

SpecConfig == InitConfig /\ [][NextConfig]_vars

\* The getConfig calls that have returned.
Completed == {c \in ConfigCalls : getConfigCalls[c].pc = "done"}

\* C26: a getConfig call that finds the cache populated returns the
\* cached object without contacting the remote store; one that finds it
\* empty builds and returns its own object.  When a call returns, the
\* cache holds the object it returns (the last writer's), and the cache
\* stays populated until clearCache empties it.
C26_CacheOnceReadThereafter ==
    /\ [](\A c \in Completed :
            LET call == getConfigCalls[c]
            IN  /\ call.result # {}
                /\ call.saw # {} => (call.result = call.saw /\ ~call.contacted)
                /\ call.saw = {} => \E o \in call.result : o.by = c)
    /\ [][/\ \A c \in ConfigCalls :
                (getConfigCalls[c].pc # "done" /\ getConfigCalls'[c].pc = "done")
                    => (cachedConfig' # {} /\ getConfigCalls'[c].result = cachedConfig')
          /\ (cachedConfig # {} /\ clears' = clears) => cachedConfig' # {}
          /\ clears' # clears => cachedConfig' = {}]_vars

\* Two calls raced during the first population: both found the cache
\* empty, and the object of the one that returned last is cached.
C26_Witness ==
    /\ clears = 0
    /\ \E c, d \in Completed :
            /\ c # d
            /\ getConfigCalls[c].saw = {}
            /\ getConfigCalls[d].saw = {}
            /\ getConfigCalls[c].result # cachedConfig
            /\ getConfigCalls[d].result = cachedConfig

\* ------------------------------------------------------ order of the stages
Pipeline == <<"embedding", "search", "processing">>

\* C27: renderData invokes its stages in pipeline order, each after the
\* one before it has completed; an empty query invokes none and returns the
\* empty bundle; after a failed stage no later stage is invoked.
C27_PipelineOrder ==
    /\ Len(renderCalls) <= 3
    /\ renderCalls = SubSeq(Pipeline, 1, Len(renderCalls))
    /\ query = "" => (renderCalls = <<>> /\ renderResult \subseteq {EmptyBundle})
    /\ renderPc = "embedding" => renderCalls = <<"embedding">>
    /\ renderPc = "search" => renderCalls = <<"embedding", "search">>
    /\ renderPc = "processing" => renderCalls = Pipeline
    /\ pc # "idle" => renderCalls = Pipeline
    /\ \A e \in thrown :
            /\ e.stage = "EMBEDDING" => (renderCalls = <<"embedding">> /\ pc = "idle")
            /\ e.stage = "HYBRID_SEARCH" => (renderCalls = <<"embedding", "search">> /\ pc = "idle")
            /\ e.stage = "PROCESS_RESULTS" => renderCalls = Pipeline

\* All three stages ran in order and a bundle with a chunk was returned.
C27_Witness ==
    /\ renderPc = "returned"
    /\ query = "q"
    /\ renderCalls = Pipeline
    /\ \E b \in renderResult : "metadata" \in DOMAIN b /\ b.metadata.chunkCount >= 1

\* ------------------------------------------------- messages to the user
\* C28: a Jira query sends the user no message while it runs and exactly
\* one message by the time it has ended, on every path.
C28_ExactlyOneMessage ==
    /\ Len(sent) <= 1
    /\ agentPc = "done" <=> Len(sent) = 1

\* The arguments of the proposal did not parse; the user got the fallback
\* of handleMessage.
C28_Witness ==
    /\ agentPc = "done"
    /\ \E m \in assistantResponse : HasFunctionCall(m) /\ m.functionCall.arguments.kind = "malformed"
    /\ sent = <<OuterFallback>>

\* ------------------------------------------------- unknown function names
UnknownProposal(m) == HasFunctionCall(m) /\ m.functionCall.name # ToolName

NotExecuted == vaultCalls = 0 /\ HttpCalls = 0 /\ ModelCalls = 1 /\ functionResult = {}

\* The content of a first response that carries a function call reaches
\* the user only as the content of a second response that repeats it.
ContentNotSent(m) ==
    \A i \in 1..Len(sent) : sent[i] = m.content => \E d \in dynamicResponse : d.content = m.content

\* C29 as stated: a proposal naming another function than make_api_call is
\* not executed and the user is told "Unknown function: <name>"; a response
\* with a function call and content is handled as a function call.
C29_UnknownFunctionToldUnknown ==
    \A m \in assistantResponse :
        /\ UnknownProposal(m) => /\ agentPc = "done"
                                 /\ NotExecuted
                                 /\ sent = <<UnknownFunction(m.functionCall.name)>>
        /\ (HasFunctionCall(m) /\ m.content # "") => ContentNotSent(m)

\* C29 amended: a proposal naming another function than make_api_call is
\* never executed; the user is told the function is unknown when the
\* arguments parse as JSON, and gets the general error message when they
\* do not, since the arguments are parsed before the name is looked at.
\* A response with a function call and content is handled as a function
\* call.
C29_UnknownFunctionNotExecuted ==
    \A m \in assistantResponse :
        /\ UnknownProposal(m)
            => /\ agentPc = "done"
               /\ NotExecuted
               /\ sent = IF m.functionCall.arguments.kind = "malformed"
                            THEN <<OuterFallback>>
                            ELSE <<UnknownFunction(m.functionCall.name)>>
        /\ (HasFunctionCall(m) /\ m.content # "") => ContentNotSent(m)

\* A proposal for another function, with arguments that parse and with
\* content, ended with the unknown-function message.
C29_Witness ==
    /\ agentPc = "done"
    /\ \E m \in assistantResponse :
        /\ UnknownProposal(m)
        /\ m.functionCall.arguments.kind = "object"
        /\ m.content # ""
        /\ sent = <<UnknownFunction(m.functionCall.name)>>

\* ------------------------------------------------- credential before request
InjectedAuthorization(request) ==
    /\ "Authorization" \in DOMAIN request.headers
    /\ request.headers["Authorization"] = BasicAuthorization("bot", VaultSecret)

\* C30: a request is handed to the HTTP client only by the step that
\* follows a key vault lookup, once per lookup; a tool execution that ends
\* at the lookup sends no request; and every request carries the
\* Authorization header built from the key vault's secret.
C30_CredentialBeforeRequest ==
    /\ [](/\ HttpCalls <= vaultCalls
          /\ \A i \in 1..HttpCalls : InjectedAuthorization(httpRequests[i]))
    /\ [][/\ HttpCalls' # HttpCalls => (agentPc = "vault" /\ HttpCalls' = HttpCalls + 1 /\ HttpCalls' <= vaultCalls)
          /\ (agentPc = "vault" /\ agentPc' = "done") => (httpRequests' = httpRequests /\ HttpCalls' = 0)]_vars

\* The lookup succeeded and the request is out, with the injected header
\* next to a header the model supplied.
C30_Witness ==
    /\ agentPc = "http"
    /\ vaultCalls = 1
    /\ HttpCalls = 1
    /\ InjectedAuthorization(httpRequests[1])
    /\ DOMAIN httpRequests[1].headers # {"Authorization", "Content-Type"}

====
